---- MODULE Spec2Model ----
(***************************************************************************)
(* Payment allocation engine of arvalox                                    *)
(* (backend/app/services/payment_allocation_service.py) over the Invoice   *)
(* and Payment tables (backend/app/models).  Money is counted in whole     *)
(* units of the smallest amount the ledger stores (Numeric(15, 2)).        *)
(***************************************************************************)
EXTENDS Integers, Sequences, FiniteSets, TLC

VARIABLES
    invoices,   \* committed Invoice rows: id -> row
    payments,   \* committed Payment rows, in insertion order (id = position)
    last,       \* the request handled last, and how it ended
    prev,       \* the committed ledger as it was before that request
    calls,      \* number of requests handled so far
    sess        \* one database session (request in progress) per client

vars == <<invoices, payments, last, prev, calls, sess>>

----------------------------------------------------------------------------
(* Bounds of the exploration *)

MaxCalls == 2
MaxAmount == 5

InvoiceIds == 1..3
Organizations == {1, 2}
Customers == {1, 2}
InitialPaidAmounts == {0, 1}
AllocationAmounts == {1, 2}
AllocationLengths == {1, 2}
AllocatePaymentAmounts == {3}
ReferenceNumbers == {"R1"}
Clients == {"c1", "c2"}

----------------------------------------------------------------------------
(* Values *)

\* Python None for reference_number; f-strings render it as "None"
None == "<null>"
\* Payment.invoice_id = None
NullInvoice == 0
\* customer_id = None (falsy, like 0, in `if customer_id:`)
NoCustomer == 0

Str(ref) == IF ref = None THEN "None" ELSE ref

InvoiceNumber(id) == "INV-" \o ToString(id)

RECURSIVE SeqSum(_)
SeqSum(s) == IF s = <<>> THEN 0 ELSE Head(s) + SeqSum(Tail(s))

Amounts(rows) == [k \in 1..Len(rows) |-> rows[k].amount]

Min(a, b) == IF a <= b THEN a ELSE b

\* every order in which a result set can be listed
Orderings(S) ==
    {f \in [1..Cardinality(S) -> S] :
        \A a, b \in 1..Cardinality(S) : a # b => f[a] # f[b]}

Outstanding(inv) == inv.total_amount - inv.paid_amount

----------------------------------------------------------------------------
(* Rows *)

Payment(org, invoice_id, amount, ref) ==
    [organization_id |-> org, invoice_id |-> invoice_id, amount |-> amount,
     reference_number |-> ref, status |-> "completed"]

\* as SchemaValid, without the total-allocated check
SchemaValid_NoTotalCheck(req) ==
    /\ Len(req.allocations) >= 1
    /\ req.amount > 0
    /\ \A k \in 1..Len(req.allocations) : req.allocations[k].allocated_amount > 0

\* PaymentAllocationCreate.validate_allocations and the field constraints
SchemaValid(req) ==
    /\ Len(req.allocations) >= 1
    /\ req.amount > 0
    /\ \A k \in 1..Len(req.allocations) : req.allocations[k].allocated_amount > 0
    /\ ~ (SeqSum([k \in 1..Len(req.allocations) |->
              req.allocations[k].allocated_amount]) > req.amount)

\* as GetInvoices, returning one invoice per requested id, repeats included
GetInvoices_PerRequestedId(db, org, invoice_ids) ==
    {SelectSeq(invoice_ids, LAMBDA i : db[i].organization_id = org)}

\* as GetInvoices, without the organization filter
GetInvoices_AnyOrganization(db, org, invoice_ids) ==
    Orderings({i \in InvoiceIds :
        \E k \in 1..Len(invoice_ids) : invoice_ids[k] = i})

\* _get_invoices: the lists the SELECT ... WHERE id IN (...) can return
GetInvoices(db, org, invoice_ids) ==
    Orderings({i \in InvoiceIds :
        /\ db[i].organization_id = org
        /\ \E k \in 1..Len(invoice_ids) : invoice_ids[k] = i})

\* _get_outstanding_invoices: ORDER BY due_date ASC, ties in any order
GetOutstandingInvoices(db, org, customer_id) ==
    {f \in Orderings({i \in InvoiceIds :
            /\ db[i].organization_id = org
            /\ db[i].total_amount > db[i].paid_amount
            /\ db[i].status \in {"sent", "overdue"}
            /\ (customer_id # NoCustomer => db[i].customer_id = customer_id)}) :
        \A a, b \in DOMAIN f : a < b => db[f[a]].due_date <= db[f[b]].due_date}

\* as ValidateAllocations, stopping after the first allocation
ValidateAllocations_FirstOnly(objs, fetched, allocations) ==
    {k \in {1} :
        \/ ~ \E j \in DOMAIN fetched : fetched[j] = allocations[k].invoice_id
        \/ allocations[k].allocated_amount
              > Outstanding(objs[allocations[k].invoice_id])}

\* as ValidateAllocations, with `>=` for `>`
ValidateAllocations_Exclusive(objs, fetched, allocations) ==
    {k \in 1..Len(allocations) :
        \/ ~ \E j \in DOMAIN fetched : fetched[j] = allocations[k].invoice_id
        \/ allocations[k].allocated_amount
              >= Outstanding(objs[allocations[k].invoice_id])}

\* _validate_allocations: the allocations that produce an error message
ValidateAllocations(objs, fetched, allocations) ==
    {k \in 1..Len(allocations) :
        \/ ~ \E j \in DOMAIN fetched : fetched[j] = allocations[k].invoice_id
        \/ allocations[k].allocated_amount
              > Outstanding(objs[allocations[k].invoice_id])}

\* as AdditionalAllocations, without `invoice.paid_amount += ...`
RECURSIVE AdditionalAllocations_NoPaidUpdate(_, _, _, _, _)
AdditionalAllocations_NoPaidUpdate(objs, rows, rest, org, ref) ==
    IF rest = <<>> THEN [objs |-> objs, rows |-> rows]
    ELSE LET allocation == Head(rest)
             id == allocation.invoice_id
         IN AdditionalAllocations_NoPaidUpdate(
                objs,
                Append(rows, Payment(org, id, allocation.allocated_amount,
                                     Str(ref) \o "-" \o ToString(id))),
                Tail(rest), org, ref)

\* allocate_payment, "Process additional allocations" loop
RECURSIVE AdditionalAllocations(_, _, _, _, _)
AdditionalAllocations(objs, rows, rest, org, ref) ==
    IF rest = <<>> THEN [objs |-> objs, rows |-> rows]
    ELSE LET allocation == Head(rest)
             id == allocation.invoice_id
         IN AdditionalAllocations(
                [objs EXCEPT ![id].paid_amount = @ + allocation.allocated_amount],
                Append(rows, Payment(org, id, allocation.allocated_amount,
                                     Str(ref) \o "-" \o ToString(id))),
                Tail(rest), org, ref)

\* allocate_payment, from the primary payment record to just before commit
ApplyAllocations(objs, fetched, org, req) ==
    LET primary_invoice == fetched[1]
        primary_allocation == req.allocations[1]
    IN AdditionalAllocations(
           [objs EXCEPT ![primary_invoice].paid_amount =
                            @ + primary_allocation.allocated_amount],
           <<Payment(org, primary_invoice, primary_allocation.allocated_amount,
                     req.reference_number)>>,
           Tail(req.allocations), org, req.reference_number)

\* as AutoAllocateLoop, allocating the whole outstanding balance each time
RECURSIVE AutoAllocateLoop_NoMin(_, _, _, _, _, _)
AutoAllocateLoop_NoMin(objs, rows, rest, remaining_amount, org, ref) ==
    IF rest = <<>> \/ remaining_amount <= 0
    THEN [objs |-> objs, rows |-> rows, remaining_amount |-> remaining_amount]
    ELSE LET id == Head(rest)
             outstanding_balance == Outstanding(objs[id])
             allocation_amount == outstanding_balance
         IN AutoAllocateLoop_NoMin(
                [objs EXCEPT ![id].paid_amount = @ + allocation_amount],
                Append(rows, Payment(org, id, allocation_amount,
                           IF ref # None THEN ref
                           ELSE "AUTO-" \o objs[id].invoice_number)),
                Tail(rest), remaining_amount - allocation_amount, org, ref)

\* auto_allocate_payment, the loop over outstanding_invoices
RECURSIVE AutoAllocateLoop(_, _, _, _, _, _)
AutoAllocateLoop(objs, rows, rest, remaining_amount, org, ref) ==
    IF rest = <<>> \/ remaining_amount <= 0
    THEN [objs |-> objs, rows |-> rows, remaining_amount |-> remaining_amount]
    ELSE LET id == Head(rest)
             outstanding_balance == Outstanding(objs[id])
             allocation_amount == Min(remaining_amount, outstanding_balance)
         IN AutoAllocateLoop(
                [objs EXCEPT ![id].paid_amount = @ + allocation_amount],
                Append(rows, Payment(org, id, allocation_amount,
                           IF ref # None THEN ref
                           ELSE "AUTO-" \o objs[id].invoice_number)),
                Tail(rest), remaining_amount - allocation_amount, org, ref)

\* auto_allocate_payment, from the loop to just before commit
ApplyAutoAllocation(objs, ordered, org, req) ==
    LET walk == AutoAllocateLoop(objs, <<>>, ordered, req.amount, org,
                                 req.reference_number)
    IN IF walk.remaining_amount > 0
       THEN [objs |-> walk.objs,
             rows |-> Append(walk.rows,
                        Payment(org, NullInvoice, walk.remaining_amount,
                            (IF req.reference_number # None
                             THEN req.reference_number ELSE "CREDIT")
                            \o "-OVERPAYMENT"))]
       ELSE [objs |-> walk.objs, rows |-> walk.rows]

\* Payment.__table_args__ uq_org_payment_reference, over old and new rows
ReferenceUnique(rows) ==
    \A a, b \in DOMAIN rows :
        (/\ a # b
         /\ rows[a].organization_id = rows[b].organization_id
         /\ rows[a].reference_number # None)
        => rows[a].reference_number # rows[b].reference_number

\* Payment.invoice_id nullable=False
InvoiceIdNotNull(rows) == \A a \in DOMAIN rows : rows[a].invoice_id # NullInvoice

\* as CommitAccepted, on a table without uq_org_payment_reference
CommitAccepted_NoUniqueConstraint(pays, rows) == InvoiceIdNotNull(rows)

\* the INSERTs and the COMMIT are accepted by the store
CommitAccepted(pays, rows) ==
    /\ InvoiceIdNotNull(rows)
    /\ ReferenceUnique(pays \o rows)

\* as CommitInvoices, also marking an invoice paid once it is paid in full
CommitInvoices_MarksPaid(db, snap, objs) ==
    [i \in InvoiceIds |->
        IF objs[i].paid_amount # snap[i].paid_amount
        THEN [db[i] EXCEPT !.paid_amount = objs[i].paid_amount,
                           !.status = IF objs[i].paid_amount >= db[i].total_amount
                                      THEN "paid" ELSE @]
        ELSE db[i]]

\* db.commit(): UPDATE each changed invoice to the session's value, INSERT rows
CommitInvoices(db, snap, objs) ==
    [i \in InvoiceIds |->
        IF objs[i].paid_amount # snap[i].paid_amount
        THEN [db[i] EXCEPT !.paid_amount = objs[i].paid_amount]
        ELSE db[i]]

----------------------------------------------------------------------------
(* Requests *)

Allocation(id, amount) == [invoice_id |-> id, allocated_amount |-> amount]

AllocationLists ==
    UNION {[1..n -> {Allocation(i, a) : i \in InvoiceIds, a \in AllocationAmounts}]
           : n \in AllocationLengths}

Request(op, org, amount, ref, customer_id, allocations) ==
    [op |-> op, organization_id |-> org, amount |-> amount,
     reference_number |-> ref, customer_id |-> customer_id,
     allocations |-> allocations]

Outcome(req, result, fetched, rows) ==
    [req |-> req, result |-> result, fetched |-> fetched, rows |-> rows]

IdleSession ==
    [pc |-> "idle", req |-> Request("none", 0, 0, None, NoCustomer, <<>>),
     fetched |-> <<>>, snap |-> <<>>, objs |-> <<>>, rows |-> <<>>,
     result |-> "none"]

----------------------------------------------------------------------------
(* Initial ledger: every invoice has 0 <= paid_amount <= total_amount and   *)
(* one completed payment row for what has been paid so far                  *)

InitialInvoice(id, org, customer, due, total, paid, status) ==
    [organization_id |-> org, customer_id |-> customer,
     invoice_number |-> InvoiceNumber(id), due_date |-> due,
     total_amount |-> total, paid_amount |-> paid, status |-> status]

RECURSIVE InitialPayments(_, _)
InitialPayments(db, id) ==
    IF id = 0 THEN <<>>
    ELSE InitialPayments(db, id - 1) \o
         (IF db[id].paid_amount > 0
          THEN <<Payment(db[id].organization_id, id, db[id].paid_amount, None)>>
          ELSE <<>>)

\* The ledger the requests run against.  Invoice 2 is the oldest obligation,
\* invoices 1 and 3 fall due on the same later day; invoice 3 is either a
\* third open invoice of organization 1, a draft of organization 1, or an
\* open invoice of organization 2.
CustomerOf(id) == IF id = 2 THEN 2 ELSE 1
DueDateOf(id) == IF id = 2 THEN 1 ELSE 2
TotalOf(id) == 2
ThirdInvoice ==
    {[organization_id |-> 1, status |-> "sent"],
     [organization_id |-> 1, status |-> "draft"],
     [organization_id |-> 2, status |-> "sent"]}

Init ==
    /\ \E paid \in [InvoiceIds -> InitialPaidAmounts], third \in ThirdInvoice :
         /\ paid[3] = 0
         /\ invoices = [i \in InvoiceIds |->
             InitialInvoice(i,
                 IF i = 3 THEN third.organization_id ELSE 1,
                 CustomerOf(i), DueDateOf(i), TotalOf(i), paid[i],
                 IF i = 3 THEN third.status
                 ELSE IF i = 2 THEN "overdue" ELSE "sent")]
    /\ payments = InitialPayments(invoices, 3)
    /\ last = Outcome(Request("none", 0, 0, None, NoCustomer, <<>>), "none", <<>>, <<>>)
    /\ prev = [invoices |-> invoices, payments |-> payments]
    /\ calls = 0
    /\ sess = [c \in Clients |-> IdleSession]

----------------------------------------------------------------------------
(* One request at a time *)

\* Exploration stops after MaxCalls requests, and at a rejected request: a
\* rejected request leaves the ledger as it was, so every ledger is reached
\* by committed requests alone and every rejection is seen as a final step.
CanCall == calls < MaxCalls /\ last.result \in {"none", "ok"}

\* additional_payment.id, read before the row is flushed
NoId == 0

\* allocate_payment, allocation_details: the primary payment has been flushed
\* and has the next id of the table, the additional ones have not
AllocationDetails(db, pays, fetched, req) ==
    [k \in 1..Len(req.allocations) |->
        IF k = 1
        THEN [invoice_id |-> fetched[1],
              invoice_number |-> db[fetched[1]].invoice_number,
              allocated_amount |-> req.allocations[1].allocated_amount,
              payment_id |-> Len(pays) + 1]
        ELSE [invoice_id |-> req.allocations[k].invoice_id,
              invoice_number |-> db[req.allocations[k].invoice_id].invoice_number,
              allocated_amount |-> req.allocations[k].allocated_amount,
              payment_id |-> NoId]]

\* `return payment, allocation_details`
Allocated(req, fetched, rows, details) ==
    [req |-> req, result |-> "ok", fetched |-> fetched, rows |-> rows,
     output |-> details]

\* POST /payments/allocate -> PaymentAllocationService.allocate_payment
AllocatePaymentOutcome(db, pays, req, fetched) ==
    IF ~ SchemaValid(req) THEN Outcome(req, "validation_error", <<>>, <<>>)
    ELSE IF Len(fetched) # Len(req.allocations)
    THEN Outcome(req, "not_found", fetched, <<>>)
    ELSE IF ValidateAllocations(db, fetched, req.allocations) # {}
    THEN Outcome(req, "allocation_error", fetched, <<>>)
    ELSE LET applied == ApplyAllocations(db, fetched, req.organization_id, req)
             primary == <<applied.rows[1]>>
         IN IF ~ CommitAccepted(pays, primary)   \* `await self.db.flush()`
            THEN Outcome(req, "integrity_error", fetched, primary)
            ELSE IF CommitAccepted(pays, applied.rows)
            THEN Allocated(req, fetched, applied.rows,
                           AllocationDetails(db, pays, fetched, req))
            ELSE Outcome(req, "integrity_error", fetched, applied.rows)

AllocatePayment ==
    /\ CanCall
    /\ \E org \in Organizations, amount \in AllocatePaymentAmounts,
          ref \in ReferenceNumbers \cup {None}, allocations \in AllocationLists :
         LET req == Request("allocate", org, amount, ref, NoCustomer, allocations)
             invoice_ids == [k \in 1..Len(allocations) |-> allocations[k].invoice_id]
         IN \E fetched \in GetInvoices(invoices, org, invoice_ids) :
              LET out == AllocatePaymentOutcome(invoices, payments, req, fetched)
                  applied == ApplyAllocations(invoices, fetched, org, req)
              IN /\ last' = out
                 /\ prev' = [invoices |-> invoices, payments |-> payments]
                 /\ IF out.result = "ok"
                    THEN /\ invoices' = CommitInvoices(invoices, invoices, applied.objs)
                         /\ payments' = payments \o applied.rows
                    ELSE UNCHANGED <<invoices, payments>>
    /\ calls' = calls + 1
    /\ UNCHANGED sess

\* POST /payments/auto-allocate -> PaymentAllocationService.auto_allocate_payment
AutoAllocatePaymentOutcome(db, pays, req, ordered) ==
    IF ordered = <<>> THEN Outcome(req, "no_outstanding", ordered, <<>>)
    ELSE LET applied == ApplyAutoAllocation(db, ordered, req.organization_id, req)
         IN IF CommitAccepted(pays, applied.rows)
            THEN Outcome(req, "ok", ordered, applied.rows)
            ELSE Outcome(req, "integrity_error", ordered, applied.rows)

AutoAllocatePayment ==
    /\ CanCall
    /\ \E org \in Organizations, amount \in 1..MaxAmount,
          ref \in ReferenceNumbers \cup {None},
          customer_id \in Customers \cup {NoCustomer} :
         LET req == Request("auto", org, amount, ref, customer_id, <<>>)
         IN \E ordered \in GetOutstandingInvoices(invoices, org, customer_id) :
              LET out == AutoAllocatePaymentOutcome(invoices, payments, req, ordered)
                  applied == ApplyAutoAllocation(invoices, ordered, org, req)
              IN /\ last' = out
                 /\ prev' = [invoices |-> invoices, payments |-> payments]
                 /\ IF out.result = "ok"
                    THEN /\ invoices' = CommitInvoices(invoices, invoices, applied.objs)
                         /\ payments' = payments \o applied.rows
                    ELSE UNCHANGED <<invoices, payments>>
    /\ calls' = calls + 1
    /\ UNCHANGED sess

Next == AllocatePayment \/ AutoAllocatePayment

Spec == Init /\ [][Next]_vars

----------------------------------------------------------------------------
(* Two requests in flight, each in its own session.  A session reads with a *)
(* plain SELECT (no FOR UPDATE, no version column), works on the objects it *)
(* loaded, and on commit writes the paid_amount it computed.                *)

ConcurrentAllocationLists ==
    {<<Allocation(i, a)>> : i \in InvoiceIds, a \in AllocationAmounts}

Finish(c, result) ==
    sess' = [sess EXCEPT ![c].pc = "done", ![c].result = result]

\* allocate_payment up to `invoices = await self._get_invoices(...)` and the
\* length check
AllocateRead(c) ==
    /\ sess[c].pc = "idle"
    /\ \E ref \in ReferenceNumbers \cup {None}, amount \in AllocatePaymentAmounts,
          allocations \in ConcurrentAllocationLists :
         LET req == Request("allocate", 1, amount, ref, NoCustomer, allocations)
             invoice_ids == [k \in 1..Len(allocations) |-> allocations[k].invoice_id]
         IN /\ SchemaValid(req)
            /\ \E fetched \in GetInvoices(invoices, 1, invoice_ids) :
                 sess' = [sess EXCEPT ![c] =
                     [pc |-> IF Len(fetched) # Len(invoice_ids)
                             THEN "done" ELSE "validate",
                      req |-> req, fetched |-> fetched, snap |-> invoices,
                      objs |-> invoices, rows |-> <<>>,
                      result |-> IF Len(fetched) # Len(invoice_ids)
                                 THEN "not_found" ELSE "none"]]
    /\ UNCHANGED <<invoices, payments, last, prev, calls>>

\* allocate_payment, `allocation_errors = await self._validate_allocations(...)`
AllocateValidate(c) ==
    /\ sess[c].pc = "validate"
    /\ IF ValidateAllocations(sess[c].objs, sess[c].fetched,
                              sess[c].req.allocations) # {}
       THEN Finish(c, "allocation_error")
       ELSE sess' = [sess EXCEPT ![c].pc = "apply"]
    /\ UNCHANGED <<invoices, payments, last, prev, calls>>

\* auto_allocate_payment up to the `if not outstanding_invoices` check
AutoAllocateRead(c) ==
    /\ sess[c].pc = "idle"
    /\ \E ref \in ReferenceNumbers \cup {None}, amount \in 1..MaxAmount :
         LET req == Request("auto", 1, amount, ref, NoCustomer, <<>>)
         IN \E ordered \in GetOutstandingInvoices(invoices, 1, NoCustomer) :
              sess' = [sess EXCEPT ![c] =
                  [pc |-> IF ordered = <<>> THEN "done" ELSE "apply",
                   req |-> req, fetched |-> ordered, snap |-> invoices,
                   objs |-> invoices, rows |-> <<>>,
                   result |-> IF ordered = <<>> THEN "no_outstanding" ELSE "none"]]
    /\ UNCHANGED <<invoices, payments, last, prev, calls>>

\* the apply pass of either operation, on the session's own objects
ApplyPass(c) ==
    /\ sess[c].pc = "apply"
    /\ LET applied ==
             IF sess[c].req.op = "allocate"
             THEN ApplyAllocations(sess[c].objs, sess[c].fetched,
                                   sess[c].req.organization_id, sess[c].req)
             ELSE ApplyAutoAllocation(sess[c].objs, sess[c].fetched,
                                      sess[c].req.organization_id, sess[c].req)
       IN sess' = [sess EXCEPT ![c].pc = "commit", ![c].objs = applied.objs,
                               ![c].rows = applied.rows]
    /\ UNCHANGED <<invoices, payments, last, prev, calls>>

\* `await self.db.commit()`
CommitPass(c) ==
    /\ sess[c].pc = "commit"
    /\ IF CommitAccepted(payments, sess[c].rows)
       THEN /\ invoices' = CommitInvoices(invoices, sess[c].snap, sess[c].objs)
            /\ payments' = payments \o sess[c].rows
            /\ Finish(c, "ok")
       ELSE /\ UNCHANGED <<invoices, payments>>
            /\ Finish(c, "integrity_error")
    /\ UNCHANGED <<last, prev, calls>>

NextConcurrent ==
    \E c \in Clients :
        \/ AllocateRead(c)
        \/ AllocateValidate(c)
        \/ AutoAllocateRead(c)
        \/ ApplyPass(c)
        \/ CommitPass(c)

SpecConcurrent == Init /\ [][NextConcurrent]_vars

----------------------------------------------------------------------------
(* Read-only operations: allocation suggestions and the aging reports        *)
(* (backend/app/services/aging_report_service.py).  Dates are day numbers.   *)

AsOfDates == {100, 130, 131, 160, 161, 190, 191}
AgingDueDates == {100, 130}
Todays == {191}
MinDaysOverdue == {1, 61, 62}
\* as_of_date = None
NoDate == 0

Buckets == {"current", "days_1_30", "days_31_60", "days_61_90", "days_over_90"}

QueryRequest(op, org, amount, customer_id, as_of_date, include_paid, days_overdue, today) ==
    [op |-> op, organization_id |-> org, amount |-> amount,
     customer_id |-> customer_id, as_of_date |-> as_of_date,
     include_paid |-> include_paid, days_overdue |-> days_overdue,
     today |-> today]

QueryOutcome(req, result, fetched, output) ==
    [req |-> req, result |-> result, fetched |-> fetched, rows |-> <<>>,
     output |-> output]

\* `invoice.due_date < payment_amount` in get_allocation_suggestions: a
\* datetime.date compared with a Decimal
DateLessThanDecimal(due_date, payment_amount) == "TypeError"

\* get_allocation_suggestions, the loop over outstanding_invoices
RECURSIVE SuggestionLoop(_, _, _, _, _)
SuggestionLoop(objs, suggestions, rest, remaining_amount, payment_amount) ==
    IF rest = <<>> \/ remaining_amount <= 0
    THEN [raised |-> FALSE, suggestions |-> suggestions,
          remaining_amount |-> remaining_amount]
    ELSE LET id == Head(rest)
             outstanding_balance == Outstanding(objs[id])
             suggested_amount == Min(remaining_amount, outstanding_balance)
             overdue == DateLessThanDecimal(objs[id].due_date, payment_amount)
         IN IF overdue = "TypeError"
            THEN [raised |-> TRUE, suggestions |-> suggestions,
                  remaining_amount |-> remaining_amount]
            ELSE SuggestionLoop(objs,
                     Append(suggestions,
                         [invoice_id |-> id,
                          suggested_allocation |-> suggested_amount]),
                     Tail(rest), remaining_amount - suggested_amount,
                     payment_amount)

\* get_allocation_suggestions
GetAllocationSuggestionsOutcome(db, req, ordered) ==
    LET walk == SuggestionLoop(db, <<>>, ordered, req.amount, req.amount)
    IN IF walk.raised THEN QueryOutcome(req, "type_error", ordered, <<>>)
       ELSE IF walk.remaining_amount > 0
       THEN QueryOutcome(req, "returned", ordered,
                Append(walk.suggestions,
                    [invoice_id |-> NullInvoice,
                     suggested_allocation |-> walk.remaining_amount]))
       ELSE QueryOutcome(req, "returned", ordered, walk.suggestions)

\* as AgingBucket, with the first boundary exclusive
AgingBucket_Exclusive30(days_overdue) ==
    IF days_overdue <= 0 THEN "current"
    ELSE IF days_overdue < 30 THEN "days_1_30"
    ELSE IF days_overdue <= 60 THEN "days_31_60"
    ELSE IF days_overdue <= 90 THEN "days_61_90"
    ELSE "days_over_90"

\* AgingReportService._get_aging_bucket
AgingBucket(days_overdue) ==
    IF days_overdue <= 0 THEN "current"
    ELSE IF days_overdue <= 30 THEN "days_1_30"
    ELSE IF days_overdue <= 60 THEN "days_31_60"
    ELSE IF days_overdue <= 90 THEN "days_61_90"
    ELSE "days_over_90"

\* as AgingQuery, without the status filter
AgingQuery_AnyStatus(db, org, customer_id, include_paid) ==
    {f \in Orderings({i \in InvoiceIds :
            /\ db[i].organization_id = org
            /\ (~ include_paid => db[i].total_amount > db[i].paid_amount)
            /\ (customer_id # NoCustomer => db[i].customer_id = customer_id)}) :
        \A a, b \in DOMAIN f : a < b => db[f[a]].due_date <= db[f[b]].due_date}

\* AgingReportService._get_outstanding_invoices: ORDER BY due_date ASC, ties
\* in any order
AgingQuery(db, org, customer_id, include_paid) ==
    {f \in Orderings({i \in InvoiceIds :
            /\ db[i].organization_id = org
            /\ db[i].status \in {"sent", "overdue", "paid"}
            /\ (~ include_paid => db[i].total_amount > db[i].paid_amount)
            /\ (customer_id # NoCustomer => db[i].customer_id = customer_id)}) :
        \A a, b \in DOMAIN f : a < b => db[f[a]].due_date <= db[f[b]].due_date}

\* list.sort(key=..., reverse=True): the positions of keys in descending
\* order, equal keys in their original order
RECURSIVE InsertDescending(_, _, _)
InsertDescending(sorted, k, keys) ==
    IF sorted = <<>> THEN <<k>>
    ELSE IF keys[Head(sorted)] >= keys[k]
    THEN <<Head(sorted)>> \o InsertDescending(Tail(sorted), k, keys)
    ELSE <<k>> \o sorted

RECURSIVE SortDescending(_, _)
SortDescending(keys, n) ==
    IF n = 0 THEN <<>>
    ELSE InsertDescending(SortDescending(keys, n - 1), n, keys)

Sorted(list, keys) ==
    LET order == SortDescending(keys, Len(list))
    IN [k \in 1..Len(list) |-> list[order[k]]]

EmptySummary == [b \in Buckets \cup {"total"} |-> [count |-> 0, amount |-> 0]]
EmptyCustomerAmounts == [b \in Buckets \cup {"total"} |-> 0]

\* customer_summaries[customer_key][...] += ..., in a dict kept in insertion order
AddToCustomer(customers, customer_id, bucket, amount) ==
    IF \E k \in DOMAIN customers : customers[k].customer_id = customer_id
    THEN [k \in DOMAIN customers |->
            IF customers[k].customer_id = customer_id
            THEN [customers[k] EXCEPT !.amounts[bucket] = @ + amount,
                                      !.amounts["total"] = @ + amount,
                                      !.invoice_count = @ + 1]
            ELSE customers[k]]
    ELSE Append(customers,
            [customer_id |-> customer_id,
             amounts |-> [EmptyCustomerAmounts EXCEPT ![bucket] = amount,
                                                     !["total"] = amount],
             invoice_count |-> 1])

\* as AgingLoop, leaving the grand total out of the summary
RECURSIVE AgingLoop_NoTotal(_, _, _, _, _)
AgingLoop_NoTotal(objs, rest, as_of_date, include_paid, acc) ==
    IF rest = <<>> THEN acc
    ELSE LET invoice == objs[Head(rest)]
             outstanding_amount == invoice.total_amount - invoice.paid_amount
             days_overdue == as_of_date - invoice.due_date
             aging_bucket == AgingBucket(days_overdue)
         IN IF outstanding_amount <= 0 /\ ~ include_paid
            THEN AgingLoop_NoTotal(objs, Tail(rest), as_of_date, include_paid, acc)
            ELSE AgingLoop_NoTotal(objs, Tail(rest), as_of_date, include_paid,
                   [summary |->
                        [acc.summary EXCEPT
                            ![aging_bucket].count = @ + 1,
                            ![aging_bucket].amount = @ + outstanding_amount],
                    customers |-> AddToCustomer(acc.customers,
                        invoice.customer_id, aging_bucket, outstanding_amount),
                    details |-> Append(acc.details,
                        [invoice_id |-> Head(rest),
                         customer_id |-> invoice.customer_id,
                         due_date |-> invoice.due_date,
                         total_amount |-> invoice.total_amount,
                         paid_amount |-> invoice.paid_amount,
                         outstanding_amount |-> outstanding_amount,
                         days_overdue |-> days_overdue,
                         aging_bucket |-> aging_bucket,
                         status |-> invoice.status])])

\* generate_aging_report, the loop over invoices
RECURSIVE AgingLoop(_, _, _, _, _)
AgingLoop(objs, rest, as_of_date, include_paid, acc) ==
    IF rest = <<>> THEN acc
    ELSE LET invoice == objs[Head(rest)]
             outstanding_amount == invoice.total_amount - invoice.paid_amount
             days_overdue == as_of_date - invoice.due_date
             aging_bucket == AgingBucket(days_overdue)
         IN IF outstanding_amount <= 0 /\ ~ include_paid
            THEN AgingLoop(objs, Tail(rest), as_of_date, include_paid, acc)
            ELSE AgingLoop(objs, Tail(rest), as_of_date, include_paid,
                   [summary |->
                        [acc.summary EXCEPT
                            ![aging_bucket].count = @ + 1,
                            ![aging_bucket].amount = @ + outstanding_amount,
                            !["total"].count = @ + 1,
                            !["total"].amount = @ + outstanding_amount],
                    customers |-> AddToCustomer(acc.customers,
                        invoice.customer_id, aging_bucket, outstanding_amount),
                    details |-> Append(acc.details,
                        [invoice_id |-> Head(rest),
                         customer_id |-> invoice.customer_id,
                         due_date |-> invoice.due_date,
                         total_amount |-> invoice.total_amount,
                         paid_amount |-> invoice.paid_amount,
                         outstanding_amount |-> outstanding_amount,
                         days_overdue |-> days_overdue,
                         aging_bucket |-> aging_bucket,
                         status |-> invoice.status])])

\* generate_aging_report, on the list its query returned
AgingReport(objs, fetched, org, as_of_date, customer_id, include_paid, today) ==
    LET report_date == IF as_of_date = NoDate THEN today ELSE as_of_date
        acc == AgingLoop(objs, fetched, report_date, include_paid,
                   [summary |-> EmptySummary, customers |-> <<>>,
                    details |-> <<>>])
        aging_details == Sorted(acc.details,
            [k \in 1..Len(acc.details) |-> acc.details[k].days_overdue])
        customer_list == Sorted(acc.customers,
            [k \in 1..Len(acc.customers) |-> acc.customers[k].amounts["total"]])
    IN [report_date |-> report_date,
        organization_id |-> org,
        customer_filter |-> customer_id,
        include_paid |-> include_paid,
        summary |-> acc.summary,
        customer_summaries |-> customer_list,
        invoice_details |-> aging_details,
        total_customers |-> Len(customer_list),
        total_invoices |-> Len(aging_details)]

\* as OverdueQuery, with the cutoff date itself left out
OverdueQuery_StrictCutoff(db, org, days_overdue, customer_id, today) ==
    LET cutoff_date == today - days_overdue
    IN {f \in Orderings({i \in InvoiceIds :
                /\ db[i].organization_id = org
                /\ db[i].due_date < cutoff_date
                /\ db[i].total_amount > db[i].paid_amount
                /\ db[i].status \in {"sent", "overdue"}
                /\ (customer_id # NoCustomer => db[i].customer_id = customer_id)}) :
           \A a, b \in DOMAIN f : a < b => db[f[a]].due_date <= db[f[b]].due_date}

\* get_overdue_invoices, its query
OverdueQuery(db, org, days_overdue, customer_id, today) ==
    LET cutoff_date == today - days_overdue
    IN {f \in Orderings({i \in InvoiceIds :
                /\ db[i].organization_id = org
                /\ db[i].due_date <= cutoff_date
                /\ db[i].total_amount > db[i].paid_amount
                /\ db[i].status \in {"sent", "overdue"}
                /\ (customer_id # NoCustomer => db[i].customer_id = customer_id)}) :
           \A a, b \in DOMAIN f : a < b => db[f[a]].due_date <= db[f[b]].due_date}

\* get_overdue_invoices, the list it builds
OverdueList(objs, fetched, today) ==
    [k \in 1..Len(fetched) |->
        LET invoice == objs[fetched[k]]
        IN [invoice_id |-> fetched[k],
            customer_id |-> invoice.customer_id,
            due_date |-> invoice.due_date,
            total_amount |-> invoice.total_amount,
            paid_amount |-> invoice.paid_amount,
            outstanding_amount |-> invoice.total_amount - invoice.paid_amount,
            days_overdue |-> today - invoice.due_date,
            status |-> invoice.status]]

\* A read-only request changes nothing, so it is explored as a final step:
\* its result is "returned" (or the exception raised), after which CanCall
\* admits no further request.
Answer(out) ==
    /\ last' = out
    /\ prev' = [invoices |-> invoices, payments |-> payments]
    /\ calls' = calls + 1
    /\ UNCHANGED <<invoices, payments, sess>>

\* GET /payments/allocation-suggestions
GetAllocationSuggestions ==
    /\ CanCall
    /\ \E org \in Organizations, amount \in 1..MaxAmount,
          customer_id \in Customers \cup {NoCustomer} :
         \E ordered \in GetOutstandingInvoices(invoices, org, customer_id) :
            Answer(GetAllocationSuggestionsOutcome(invoices,
                QueryRequest("suggest", org, amount, customer_id, NoDate,
                             FALSE, 0, 0),
                ordered))

\* AgingReportService.generate_aging_report
GenerateAgingReport ==
    /\ CanCall
    /\ \E org \in Organizations, as_of_date \in AsOfDates \cup {NoDate},
          customer_id \in Customers \cup {NoCustomer},
          include_paid \in BOOLEAN, today \in Todays :
         \E fetched \in AgingQuery(invoices, org, customer_id, include_paid) :
            Answer(QueryOutcome(
                QueryRequest("aging", org, 0, customer_id, as_of_date,
                             include_paid, 0, today),
                "returned", fetched,
                AgingReport(invoices, fetched, org, as_of_date, customer_id,
                            include_paid, today)))

\* AgingReportService.get_overdue_invoices
GetOverdueInvoices ==
    /\ CanCall
    /\ \E org \in Organizations, days_overdue \in MinDaysOverdue,
          customer_id \in Customers \cup {NoCustomer}, today \in Todays :
         \E fetched \in OverdueQuery(invoices, org, days_overdue, customer_id,
                                     today) :
            Answer(QueryOutcome(
                QueryRequest("overdue", org, 0, customer_id, NoDate, FALSE,
                             days_overdue, today),
                "returned", fetched, OverdueList(invoices, fetched, today)))

\* allocations and read-only requests against one ledger
NextQueries ==
    \/ AllocatePayment
    \/ AutoAllocatePayment
    \/ GetAllocationSuggestions
    \/ GenerateAgingReport
    \/ GetOverdueInvoices

SpecQueries == Init /\ [][NextQueries]_vars

\* Ledgers for the aging reports: three invoices of organization 1 in any
\* status, paid in any part, falling due on one of two days
AgingStatuses == {"draft", "sent", "paid", "overdue", "cancelled"}

InitAging ==
    /\ \E status \in [InvoiceIds -> AgingStatuses],
          paid \in [InvoiceIds -> 0..2],
          due \in [InvoiceIds -> AgingDueDates] :
         /\ status[3] \in {"sent", "paid"}
         /\ due[3] = 100
         /\ invoices = [i \in InvoiceIds |->
                InitialInvoice(i, 1, CustomerOf(i), due[i], TotalOf(i),
                               paid[i], status[i])]
    /\ payments = InitialPayments(invoices, 3)
    /\ last = Outcome(Request("none", 0, 0, None, NoCustomer, <<>>), "none", <<>>, <<>>)
    /\ prev = [invoices |-> invoices, payments |-> payments]
    /\ calls = 0
    /\ sess = [c \in Clients |-> IdleSession]

NextAging == GenerateAgingReport \/ GetOverdueInvoices

SpecAging == InitAging /\ [][NextAging]_vars

----------------------------------------------------------------------------
(* get_aging_trends: one aging report per month, each with its own SELECT,   *)
(* while another session allocates.  Calendar dates are records; their       *)
(* ordinal (date.toordinal()) is the day number used by the reports.         *)

TrendTodays == {[year |-> 2024, month |-> 1, day |-> 15],
                [year |-> 2024, month |-> 7, day |-> 9]}
TrendMonthsBack == {1, 2, 3}

IsLeap(year) == (year % 4 = 0 /\ year % 100 # 0) \/ year % 400 = 0

DaysInMonth(year, month) ==
    IF month = 2 THEN (IF IsLeap(year) THEN 29 ELSE 28)
    ELSE IF month \in {4, 6, 9, 11} THEN 30 ELSE 31

\* datetime.date.toordinal()
ToOrdinal(d) ==
    LET y == d.year - 1
    IN y * 365 + (y \div 4) - (y \div 100) + (y \div 400)
       + SeqSum([m \in 1..(d.month - 1) |-> DaysInMonth(d.year, m)])
       + d.day

\* get_aging_trends, the report date of data point i
TrendReportDate(current_date, i) ==
    IF i = 0 THEN current_date
    ELSE LET back == current_date.month - i
             month == IF back <= 0 THEN back + 12 ELSE back
             year == IF back <= 0 THEN current_date.year - 1
                     ELSE current_date.year
         IN IF month \in 1..12
            THEN [year |-> year, month |-> month, day |-> 1]
            ELSE [year |-> year, month |-> month, day |-> 0]   \* date() raises

TrendsRequest(org, months_back, today) ==
    [op |-> "trends", organization_id |-> org, months_back |-> months_back,
     today |-> today]

\* one entry of `trends`; `ledger` records the invoices table at the time of
\* the entry's SELECT
TrendPoint(report_date, report, ledger) ==
    [report_date |-> report_date,
     month_year |-> <<report_date.year, report_date.month>>,
     summary |-> report.summary,
     total_customers |-> report.total_customers,
     total_invoices |-> report.total_invoices,
     ledger |-> ledger]

\* GET /reports/aging/trends, up to the first query
TrendsBegin(c) ==
    /\ sess[c].pc = "idle"
    /\ \E months_back \in TrendMonthsBack, today \in TrendTodays :
         sess' = [sess EXCEPT ![c] =
             [pc |-> "trends", req |-> TrendsRequest(1, months_back, today),
              fetched |-> <<>>, snap |-> invoices, objs |-> invoices,
              rows |-> <<>>, result |-> "none"]]
    /\ UNCHANGED <<invoices, payments, last, prev, calls>>

\* one pass of the loop of get_aging_trends: generate_aging_report runs its
\* SELECT on the committed ledger.  An Invoice object still held by the
\* session's identity map keeps the attributes it was loaded with (retained);
\* one that was collected is loaded afresh.  After the last pass the list is
\* sorted and returned; `rows` holds the list.
TrendsPoint(c) ==
    /\ sess[c].pc = "trends"
    /\ LET req == sess[c].req
           i == Len(sess[c].rows)
           report_date == TrendReportDate(req.today, i)
       IN IF report_date.day = 0
          THEN Finish(c, "value_error")
          ELSE \E fetched \in AgingQuery(invoices, req.organization_id,
                                         NoCustomer, FALSE),
                  retained \in BOOLEAN :
                 LET loaded == {sess[c].fetched[k] : k \in DOMAIN sess[c].fetched}
                     objs == [id \in InvoiceIds |->
                                IF retained /\ id \in loaded
                                THEN sess[c].objs[id] ELSE invoices[id]]
                     report == AgingReport(objs, fetched, req.organization_id,
                                   ToOrdinal(report_date), NoCustomer, FALSE,
                                   ToOrdinal(req.today))
                     trends == Append(sess[c].rows,
                                   TrendPoint(report_date, report, invoices))
                 IN IF Len(trends) < req.months_back
                    THEN sess' = [sess EXCEPT ![c].fetched = fetched,
                                              ![c].objs = objs,
                                              ![c].rows = trends]
                    ELSE sess' = [sess EXCEPT
                             ![c].pc = "done", ![c].result = "returned",
                             ![c].fetched = fetched, ![c].objs = objs,
                             ![c].rows = Sorted(trends,
                                 [k \in 1..Len(trends) |->
                                     ToOrdinal(trends[k].report_date)])]
    /\ UNCHANGED <<invoices, payments, last, prev, calls>>

NextSnapshot ==
    \E c \in Clients :
        \/ AllocateRead(c)
        \/ AllocateValidate(c)
        \/ AutoAllocateRead(c)
        \/ ApplyPass(c)
        \/ CommitPass(c)
        \/ TrendsBegin(c)
        \/ TrendsPoint(c)

SpecSnapshot == Init /\ [][NextSnapshot]_vars

----------------------------------------------------------------------------
(* get_aging_trends as one call on an unchanged ledger, for every            *)
(* months_back the endpoint accepts                                          *)

AcceptedMonthsBack == 1..24

\* get_aging_trends, the loop `for i in range(months_back)`
RECURSIVE TrendsLoop(_, _, _, _, _, _)
TrendsLoop(db, req, fetched, i, trends, raised) ==
    IF raised \/ i = req.months_back
    THEN [raised |-> raised, trends |-> trends]
    ELSE LET report_date == TrendReportDate(req.today, i)
         IN IF report_date.day = 0
            THEN TrendsLoop(db, req, fetched, i, trends, TRUE)
            ELSE TrendsLoop(db, req, fetched, i + 1,
                     Append(trends,
                         TrendPoint(report_date,
                             AgingReport(db, fetched, req.organization_id,
                                 ToOrdinal(report_date), NoCustomer, FALSE,
                                 ToOrdinal(req.today)),
                             db)),
                     FALSE)

\* AgingReportService.get_aging_trends
GetAgingTrendsOutcome(db, req, fetched) ==
    LET walk == TrendsLoop(db, req, fetched, 0, <<>>, FALSE)
    IN IF walk.raised THEN QueryOutcome(req, "value_error", fetched, <<>>)
       ELSE QueryOutcome(req, "returned", fetched,
                Sorted(walk.trends,
                    [k \in 1..Len(walk.trends) |->
                        ToOrdinal(walk.trends[k].report_date)]))

\* GET /reports/aging/trends
GetAgingTrends ==
    /\ CanCall
    /\ \E org \in Organizations, months_back \in AcceptedMonthsBack,
          today \in TrendTodays :
         \E fetched \in AgingQuery(invoices, org, NoCustomer, FALSE) :
            Answer(GetAgingTrendsOutcome(invoices,
                TrendsRequest(org, months_back, today), fetched))

NextTrends == GetAgingTrends

SpecTrends == Init /\ [][NextTrends]_vars

----------------------------------------------------------------------------
(* Payment lifecycle endpoints of backend/app/api/v1/payments.py, called by  *)
(* a user of organization 1.  A payment's id is its position in `payments`;  *)
(* a deleted row leaves its position empty.                                  *)

PaymentStatuses == {"completed", "pending", "failed", "cancelled"}
LifecycleAmounts == {1, 2}
\* a field left out of a PaymentUpdate body
NoAmount == 0
NoStatus == "<unset>"

DeletedPayment == [Payment(0, NullInvoice, 0, None) EXCEPT !.status = "deleted"]

LifecycleRequest(op, org, payment_id, invoice_id, amount, ref, status) ==
    [op |-> op, organization_id |-> org, payment_id |-> payment_id,
     invoice_id |-> invoice_id, amount |-> amount, reference_number |-> ref,
     status |-> status]

Effect(result, db, pays) == [result |-> result, invoices |-> db, payments |-> pays]

\* select(Payment).where(Payment.id == payment_id, Payment.organization_id == ...)
PaymentFound(pays, org, payment_id) ==
    /\ payment_id \in DOMAIN pays
    /\ pays[payment_id].status # "deleted"
    /\ pays[payment_id].organization_id = org

\* another Payment row of the organization carries the reference number
ReferenceTaken(pays, org, ref, payment_id) ==
    \E r \in DOMAIN pays : /\ r # payment_id
                           /\ pays[r].organization_id = org
                           /\ pays[r].reference_number = ref

\* POST /payments/
CreatePaymentEffect(db, pays, req) ==
    IF db[req.invoice_id].organization_id # req.organization_id
    THEN Effect("not_found", db, pays)
    ELSE IF req.reference_number # None
            /\ ReferenceTaken(pays, req.organization_id, req.reference_number, 0)
    THEN Effect("duplicate_reference", db, pays)
    ELSE IF req.amount > db[req.invoice_id].total_amount
                         - db[req.invoice_id].paid_amount
    THEN Effect("exceeds_balance", db, pays)
    ELSE Effect("ok",
             [db EXCEPT ![req.invoice_id].paid_amount = @ + req.amount],
             Append(pays, Payment(req.organization_id, req.invoice_id,
                                  req.amount, req.reference_number)))

\* as UpdatePaymentEffect, without the check of the payment's status
UpdatePaymentEffect_AnyStatus(db, pays, req) ==
    IF ~ PaymentFound(pays, req.organization_id, req.payment_id)
    THEN Effect("not_found", db, pays)
    ELSE LET payment == pays[req.payment_id]
             invoice == db[payment.invoice_id]
             amount_changes == req.amount # NoAmount /\ req.amount # payment.amount
             updated == [payment EXCEPT
                 !.amount = IF req.amount # NoAmount THEN req.amount ELSE @,
                 !.reference_number = IF req.reference_number # None
                                      THEN req.reference_number ELSE @,
                 !.status = IF req.status # NoStatus THEN req.status ELSE @]
         IN IF /\ req.reference_number # None
               /\ req.reference_number # payment.reference_number
               /\ ReferenceTaken(pays, req.organization_id,
                                 req.reference_number, req.payment_id)
            THEN Effect("duplicate_reference", db, pays)
            ELSE IF /\ amount_changes
                    /\ req.amount > invoice.total_amount - invoice.paid_amount
                                    + payment.amount
            THEN Effect("exceeds_balance", db, pays)
            ELSE Effect("ok",
                     IF amount_changes
                     THEN [db EXCEPT ![payment.invoice_id].paid_amount =
                               @ - payment.amount + req.amount]
                     ELSE db,
                     [pays EXCEPT ![req.payment_id] = updated])

\* PUT /payments/{payment_id}
UpdatePaymentEffect(db, pays, req) ==
    IF ~ PaymentFound(pays, req.organization_id, req.payment_id)
    THEN Effect("not_found", db, pays)
    ELSE LET payment == pays[req.payment_id]
             invoice == db[payment.invoice_id]
             amount_changes == req.amount # NoAmount /\ req.amount # payment.amount
             updated == [payment EXCEPT
                 !.amount = IF req.amount # NoAmount THEN req.amount ELSE @,
                 !.reference_number = IF req.reference_number # None
                                      THEN req.reference_number ELSE @,
                 !.status = IF req.status # NoStatus THEN req.status ELSE @]
         IN IF payment.status \in {"completed", "cancelled"}
            THEN Effect("not_updatable", db, pays)
            ELSE IF /\ req.reference_number # None
                    /\ req.reference_number # payment.reference_number
                    /\ ReferenceTaken(pays, req.organization_id,
                                      req.reference_number, req.payment_id)
            THEN Effect("duplicate_reference", db, pays)
            ELSE IF /\ amount_changes
                    /\ req.amount > invoice.total_amount - invoice.paid_amount
                                    + payment.amount
            THEN Effect("exceeds_balance", db, pays)
            ELSE Effect("ok",
                     IF amount_changes
                     THEN [db EXCEPT ![payment.invoice_id].paid_amount =
                               @ - payment.amount + req.amount]
                     ELSE db,
                     [pays EXCEPT ![req.payment_id] = updated])

\* as ValidTransitions, with a cancelled payment allowed back to pending
ValidTransitions_Reopen(status) ==
    CASE status = "pending" -> {"completed", "failed", "cancelled"}
      [] status = "completed" -> {"cancelled"}
      [] status = "failed" -> {"pending", "completed", "cancelled"}
      [] status = "cancelled" -> {"pending"}
      [] OTHER -> {}

\* update_payment_status, valid_transitions
ValidTransitions(status) ==
    CASE status = "pending" -> {"completed", "failed", "cancelled"}
      [] status = "completed" -> {"cancelled"}
      [] status = "failed" -> {"pending", "completed", "cancelled"}
      [] status = "cancelled" -> {}
      [] OTHER -> {}

\* PATCH /payments/{payment_id}/status
UpdatePaymentStatusEffect(db, pays, req) ==
    IF ~ PaymentFound(pays, req.organization_id, req.payment_id)
    THEN Effect("not_found", db, pays)
    ELSE LET payment == pays[req.payment_id]
         IN IF req.status \notin ValidTransitions(payment.status)
            THEN Effect("invalid_transition", db, pays)
            ELSE Effect("ok",
                     IF payment.status = "completed" /\ req.status = "cancelled"
                     THEN [db EXCEPT ![payment.invoice_id].paid_amount =
                               @ - payment.amount]
                     ELSE IF payment.status # "completed"
                             /\ req.status = "completed"
                     THEN [db EXCEPT ![payment.invoice_id].paid_amount =
                               @ + payment.amount]
                     ELSE db,
                     [pays EXCEPT ![req.payment_id].status = req.status])

\* DELETE /payments/{payment_id}
DeletePaymentEffect(db, pays, req) ==
    IF ~ PaymentFound(pays, req.organization_id, req.payment_id)
    THEN Effect("not_found", db, pays)
    ELSE IF pays[req.payment_id].status \notin {"pending", "failed"}
    THEN Effect("not_deletable", db, pays)
    ELSE Effect("ok", db, [pays EXCEPT ![req.payment_id] = DeletedPayment])

\* a lifecycle request served: the endpoint commits or raises
Serve(req, effect) ==
    /\ last' = Outcome(req, effect.result, <<>>, <<>>)
    /\ prev' = [invoices |-> invoices, payments |-> payments]
    /\ invoices' = effect.invoices
    /\ payments' = effect.payments
    /\ calls' = calls + 1
    /\ UNCHANGED sess

\* payment ids a request may name: the rows there are and one that is not
PaymentIds == 1..(Len(payments) + 1)

CreatePayment ==
    /\ CanCall
    /\ \E invoice_id \in InvoiceIds, amount \in LifecycleAmounts,
          ref \in ReferenceNumbers \cup {None} :
         LET req == LifecycleRequest("create", 1, 0, invoice_id, amount, ref,
                                     NoStatus)
         IN Serve(req, CreatePaymentEffect(invoices, payments, req))

UpdatePayment ==
    /\ CanCall
    /\ \E payment_id \in PaymentIds,
          amount \in LifecycleAmounts \cup {NoAmount},
          ref \in ReferenceNumbers \cup {None},
          status \in PaymentStatuses \cup {NoStatus} :
         LET req == LifecycleRequest("update", 1, payment_id, NullInvoice,
                                     amount, ref, status)
         IN Serve(req, UpdatePaymentEffect(invoices, payments, req))

UpdatePaymentStatus ==
    /\ CanCall
    /\ \E payment_id \in PaymentIds, status \in PaymentStatuses :
         LET req == LifecycleRequest("status", 1, payment_id, NullInvoice,
                                     NoAmount, None, status)
         IN Serve(req, UpdatePaymentStatusEffect(invoices, payments, req))

DeletePayment ==
    /\ CanCall
    /\ \E payment_id \in PaymentIds :
         LET req == LifecycleRequest("delete", 1, payment_id, NullInvoice,
                                     NoAmount, None, NoStatus)
         IN Serve(req, DeletePaymentEffect(invoices, payments, req))

\* Ledgers for the lifecycle: invoice 1 of organization 1 with one payment in
\* any status, counted in paid_amount when completed, and invoice 3 of
\* organization 2 with a completed payment
InitLifecycle ==
    /\ \E status \in PaymentStatuses, amount \in LifecycleAmounts :
         /\ invoices = [i \in InvoiceIds |->
                InitialInvoice(i, IF i = 3 THEN 2 ELSE 1, CustomerOf(i),
                    DueDateOf(i), TotalOf(i),
                    IF i = 1 /\ status = "completed" THEN amount
                    ELSE IF i = 3 THEN 1 ELSE 0,
                    "sent")]
         /\ payments = <<[Payment(1, 1, amount, None) EXCEPT !.status = status],
                         Payment(2, 3, 1, None)>>
    /\ last = Outcome(Request("none", 0, 0, None, NoCustomer, <<>>), "none", <<>>, <<>>)
    /\ prev = [invoices |-> invoices, payments |-> payments]
    /\ calls = 0
    /\ sess = [c \in Clients |-> IdleSession]

NextLifecycle ==
    \/ CreatePayment
    \/ UpdatePayment
    \/ UpdatePaymentStatus
    \/ DeletePayment

SpecLifecycle == InitLifecycle /\ [][NextLifecycle]_vars

----------------------------------------------------------------------------
(* The invoicing side's status endpoint, backend/app/api/v1/invoices.py,     *)
(* beside the aging report                                                   *)

\* update_invoice_status, valid_transitions
InvoiceTransitions(status) ==
    CASE status = "draft" -> {"sent", "cancelled"}
      [] status = "sent" -> {"paid", "overdue", "cancelled"}
      [] status = "overdue" -> {"paid", "cancelled"}
      [] OTHER -> {}

InvoiceStatusRequest(org, invoice_id, status) ==
    [op |-> "invoice_status", organization_id |-> org,
     invoice_id |-> invoice_id, status |-> status]

\* PATCH /invoices/{invoice_id}/status
UpdateInvoiceStatus ==
    /\ CanCall
    /\ \E org \in Organizations, invoice_id \in InvoiceIds,
          status \in AgingStatuses :
         LET req == InvoiceStatusRequest(org, invoice_id, status)
             result ==
                 IF invoices[invoice_id].organization_id # org
                 THEN "not_found"
                 ELSE IF status \notin InvoiceTransitions(invoices[invoice_id].status)
                 THEN "invalid_transition"
                 ELSE "ok"
         IN /\ last' = Outcome(req, result, <<>>, <<>>)
            /\ prev' = [invoices |-> invoices, payments |-> payments]
            /\ invoices' = IF result = "ok"
                           THEN [invoices EXCEPT ![invoice_id].status = status]
                           ELSE invoices
    /\ calls' = calls + 1
    /\ UNCHANGED <<payments, sess>>

NextEngines == UpdateInvoiceStatus \/ GenerateAgingReport

SpecEngines == Init /\ [][NextEngines]_vars

----------------------------------------------------------------------------
(* Properties *)

\* the Payment rows the last request committed
Created == SubSeq(payments, Len(prev.payments) + 1, Len(payments))

AllocatedTotal(allocations) ==
    SeqSum([k \in 1..Len(allocations) |-> allocations[k].allocated_amount])

RECURSIVE CompletedSum(_, _)
CompletedSum(rows, id) ==
    IF rows = <<>> THEN 0
    ELSE (IF Head(rows).invoice_id = id /\ Head(rows).status = "completed"
          THEN Head(rows).amount ELSE 0) + CompletedSum(Tail(rows), id)

\* total outstanding, before the last request, of the first n invoices of a list
RECURSIVE OutstandingBefore(_, _)
OutstandingBefore(ids, n) ==
    IF n = 0 THEN 0
    ELSE OutstandingBefore(ids, n - 1) + Outstanding(prev.invoices[ids[n]])

LedgerUnchanged == invoices = prev.invoices /\ payments = prev.payments

AllocateCommitted == last.req.op = "allocate" /\ last.result = "ok"
AutoAllocated == last.req.op = "auto" /\ last.result = "ok"

\* C1: after any sequence of committed AllocatePayment and AutoAllocatePayment
\* calls, run one at a time from a ledger with 0 <= paid_amount <= total_amount,
\* every invoice has paid_amount <= total_amount.
C1_PaidWithinTotal ==
    \A i \in InvoiceIds : invoices[i].paid_amount <= invoices[i].total_amount

\* C2: when two allocation calls run concurrently, in every interleaving each
\* invoice's committed paid_amount stays within total_amount and equals its
\* initial paid_amount plus the allocations of the calls that committed.
C2_ConcurrentAllocationsAddUp ==
    \A i \in InvoiceIds :
        /\ invoices[i].paid_amount <= invoices[i].total_amount
        /\ invoices[i].paid_amount =
               prev.invoices[i].paid_amount
               + SeqSum([k \in 1..2 |->
                     LET c == <<"c1", "c2">>[k]
                     IN IF sess[c].result = "ok"
                        THEN CompletedSum(sess[c].rows, i) ELSE 0])

\* C3: for every successful AutoAllocatePayment call, the amounts of the
\* Payment rows it creates sum to paymentAmount exactly.
C3_AutoAllocateConserves ==
    AutoAllocated => SeqSum(Amounts(Created)) = last.req.amount

C3_Witness ==
    /\ AutoAllocated
    /\ Len(Created) >= 2
    /\ \E k \in DOMAIN Created :
           Created[k].amount < Outstanding(prev.invoices[Created[k].invoice_id])

\* C4: for every successful AllocatePayment call, the amounts of the Payment
\* rows it creates sum to the request's total payment amount exactly.
C4_AllocateConserves ==
    AllocateCommitted => SeqSum(Amounts(Created)) = last.req.amount

\* C5: a request whose allocated amounts sum to more than the payment amount
\* is rejected before any row is created or any paid_amount changed; every
\* applied request has allocated amounts summing to at most the payment amount.
C5_OverAllocationNeverApplied ==
    /\ (last.req.op = "allocate"
        /\ AllocatedTotal(last.req.allocations) > last.req.amount)
       => (last.result = "validation_error" /\ LedgerUnchanged)
    /\ AllocateCommitted
       => AllocatedTotal(last.req.allocations) <= last.req.amount

\* an over-allocating request that nothing else would have stopped
C5_Witness ==
    /\ last.req.op = "allocate"
    /\ last.result = "validation_error"
    /\ AllocatedTotal(last.req.allocations) > last.req.amount
    /\ Len(last.req.allocations) = 2
    /\ last.req.allocations[1].invoice_id # last.req.allocations[2].invoice_id
    /\ \A k \in 1..2 :
         LET a == last.req.allocations[k]
         IN /\ invoices[a.invoice_id].organization_id = last.req.organization_id
            /\ a.allocated_amount <= Outstanding(invoices[a.invoice_id])

\* C6: an AllocatePayment call with an allocation above its invoice's
\* outstanding balance fails and leaves the ledger unchanged: no Payment row
\* is created and no targeted invoice's paid_amount changes.
C6_RejectedAllocationLeavesNoTrace ==
    (/\ last.req.op = "allocate"
     /\ \E k \in DOMAIN last.req.allocations :
          last.req.allocations[k].allocated_amount
            > Outstanding(prev.invoices[last.req.allocations[k].invoice_id]))
    => (last.result # "ok" /\ LedgerUnchanged)

\* a valid allocation listed first, the offending one second
C6_Witness ==
    /\ last.req.op = "allocate"
    /\ last.result = "allocation_error"
    /\ Len(last.req.allocations) = 2
    /\ LET a == last.req.allocations[1]
           b == last.req.allocations[2]
       IN /\ a.invoice_id # b.invoice_id
          /\ a.allocated_amount <= Outstanding(prev.invoices[a.invoice_id])
          /\ b.allocated_amount > Outstanding(prev.invoices[b.invoice_id])
          /\ last.fetched[1] = a.invoice_id

\* C7: after a successful AllocatePayment, every allocation's invoice has had
\* paid_amount raised by exactly the allocated amount and has exactly one new
\* completed Payment row of that amount; the primary (first) row references
\* the first allocation's invoice; whatever order the store returned.
C7_EachAllocationApplied ==
    AllocateCommitted =>
        /\ \A k \in DOMAIN last.req.allocations :
             LET a == last.req.allocations[k]
                 mine == {r \in DOMAIN Created :
                             Created[r].invoice_id = a.invoice_id}
             IN /\ invoices[a.invoice_id].paid_amount =
                       prev.invoices[a.invoice_id].paid_amount + a.allocated_amount
                /\ Cardinality(mine) = 1
                /\ \A r \in mine : /\ Created[r].amount = a.allocated_amount
                                   /\ Created[r].status = "completed"
        /\ Created[1].invoice_id = last.req.allocations[1].invoice_id

\* C8: if every invoice's paid_amount equals the sum of the completed Payment
\* rows referencing it before a call, it does so after any committed
\* AllocatePayment or AutoAllocatePayment call, hence after any sequence.
C8_PaidEqualsCompletedPayments ==
    \A i \in InvoiceIds : invoices[i].paid_amount = CompletedSum(payments, i)

\* a second committed request, of several rows, after a first one
C8_Witness ==
    /\ calls = 2
    /\ last.result = "ok"
    /\ Len(Created) >= 2
    /\ \E i \in InvoiceIds : invoices[i].paid_amount > prev.invoices[i].paid_amount

\* C9: AutoAllocatePayment settles oldest-due-first, with or without a
\* referenceNumber: on a non-empty outstanding set that the payment does not
\* exceed, the call commits and each invoice, in due-date order, receives
\* min(remaining, outstanding) (A and B outstanding 100.00 each, payment 150.00:
\* A paid 100.00, B paid 50.00, no credit row).
C9_OldestDueFirst ==
    (/\ last.req.op = "auto"
     /\ last.fetched # <<>>
     /\ last.req.amount <= OutstandingBefore(last.fetched, Len(last.fetched)))
    => /\ last.result = "ok"
       /\ \A k \in DOMAIN last.fetched :
            LET id == last.fetched[k]
                before == OutstandingBefore(last.fetched, k - 1)
                remaining == IF last.req.amount > before
                             THEN last.req.amount - before ELSE 0
            IN invoices[id].paid_amount =
                   prev.invoices[id].paid_amount
                   + Min(remaining, Outstanding(prev.invoices[id]))
       /\ \A r \in DOMAIN Created : Created[r].invoice_id # NullInvoice

\* C10: when paymentAmount exceeds the total outstanding of the non-empty
\* outstanding set, AutoAllocatePayment commits: every such invoice is fully
\* settled and exactly one more Payment row, with a null invoice reference and
\* amount paymentAmount - total outstanding, is persisted.
C10_OverpaymentBecomesCredit ==
    (/\ last.req.op = "auto"
     /\ last.fetched # <<>>
     /\ last.req.amount > OutstandingBefore(last.fetched, Len(last.fetched)))
    => /\ last.result = "ok"
       /\ \A k \in DOMAIN last.fetched :
            invoices[last.fetched[k]].paid_amount
                = invoices[last.fetched[k]].total_amount
       /\ Cardinality({r \in DOMAIN Created :
                          Created[r].invoice_id = NullInvoice}) = 1
       /\ \A r \in DOMAIN Created :
            Created[r].invoice_id = NullInvoice =>
                Created[r].amount = last.req.amount
                    - OutstandingBefore(last.fetched, Len(last.fetched))

\* the reference number is carried by a committed row of the organization
ReferenceUsed(rows, org, ref) ==
    /\ ref # None
    /\ \E r \in DOMAIN rows : /\ rows[r].organization_id = org
                              /\ rows[r].reference_number = ref

\* C13: an AllocatePayment with a single allocation equal to the invoice's
\* outstanding balance succeeds and sets paid_amount = total_amount; once an
\* invoice is fully paid, every AllocatePayment allocating to it fails and
\* changes nothing, and its paid_amount stays as it is.
C13_InclusiveBoundThenClosed ==
    /\ (/\ last.req.op = "allocate"
        /\ SchemaValid(last.req)
        /\ Len(last.req.allocations) = 1
        /\ LET a == last.req.allocations[1]
           IN /\ prev.invoices[a.invoice_id].organization_id
                     = last.req.organization_id
              /\ a.allocated_amount = Outstanding(prev.invoices[a.invoice_id])
        /\ ~ ReferenceUsed(prev.payments, last.req.organization_id,
                           last.req.reference_number))
       => /\ last.result = "ok"
          /\ LET i == last.req.allocations[1].invoice_id
             IN invoices[i].paid_amount = invoices[i].total_amount
    /\ \A i \in InvoiceIds :
         prev.invoices[i].paid_amount = prev.invoices[i].total_amount
         => /\ invoices[i].paid_amount = prev.invoices[i].paid_amount
            /\ (/\ last.req.op = "allocate"
                /\ \E k \in DOMAIN last.req.allocations :
                      last.req.allocations[k].invoice_id = i)
               => (last.result # "ok" /\ LedgerUnchanged)

\* the spec instance: an invoice paid in part, then settled by one exact
\* allocation, then named by a further AllocatePayment
C13_Witness ==
    /\ calls = 2
    /\ last.req.op = "allocate"
    /\ last.result = "allocation_error"
    /\ \A r \in DOMAIN prev.payments : prev.payments[r].reference_number = None
    /\ \E i \in InvoiceIds :
         /\ prev.invoices[i].paid_amount = prev.invoices[i].total_amount
         /\ Cardinality({r \in DOMAIN prev.payments :
                            prev.payments[r].invoice_id = i}) = 2
         /\ \E k \in DOMAIN last.req.allocations :
               last.req.allocations[k].invoice_id = i

\* C14: after any committed AllocatePayment or AutoAllocatePayment call, no
\* two Payment rows of one organization carry the same non-null
\* reference_number.
C14_ReferenceNumbersUnique ==
    \A a, b \in DOMAIN payments :
        (/\ a < b
         /\ payments[a].organization_id = payments[b].organization_id
         /\ payments[a].reference_number # None)
        => payments[a].reference_number # payments[b].reference_number

\* a call that committed several referenced rows after an earlier call's
C14_Witness ==
    /\ calls = 2
    /\ last.result = "ok"
    /\ Len(Created) >= 2
    /\ \A r \in DOMAIN Created : Created[r].reference_number # None
    /\ \E r \in DOMAIN prev.payments :
          /\ prev.payments[r].reference_number # None
          /\ prev.payments[r].organization_id = last.req.organization_id

\* C15: a call whose referenceNumber is already used by a Payment row of the
\* organization is rejected before any Payment row is added and before any
\* paid_amount is changed.
C15_DuplicateReferenceRejectedFirst ==
    (/\ last.req.op \in {"allocate", "auto"}
     /\ ReferenceUsed(prev.payments, last.req.organization_id,
                      last.req.reference_number))
    => (last.result # "ok" /\ last.rows = <<>>)

\* what AutoAllocatePayment does with the arguments of the last
\* GetAllocationSuggestions call on the same ledger and the same query result
AutoForSuggestion ==
    AutoAllocatePaymentOutcome(invoices, payments,
        Request("auto", last.req.organization_id, last.req.amount, None,
                last.req.customer_id, <<>>),
        last.fetched)

\* C11: GetAllocationSuggestions returns a result exactly when
\* AutoAllocatePayment with the same arguments on the same ledger does, and
\* then its (invoice, amount) pairs, trailing overpayment included, are the
\* ones AutoAllocatePayment applies, in the same order.
C11_SuggestionsMatchAutoAllocate ==
    last.req.op = "suggest"
    => /\ (last.result = "returned") <=> (AutoForSuggestion.result = "ok")
       /\ last.result = "returned"
          => [k \in DOMAIN last.output |->
                <<last.output[k].invoice_id,
                  last.output[k].suggested_allocation>>]
             = [k \in DOMAIN AutoForSuggestion.rows |->
                <<AutoForSuggestion.rows[k].invoice_id,
                  AutoForSuggestion.rows[k].amount>>]

\* the invoices a read-only call returned
Returned ==
    IF last.req.op = "aging" THEN last.output.invoice_details
    ELSE IF last.req.op \in {"suggest", "overdue"} THEN last.output
    ELSE <<>>

NamesForeignInvoice ==
    /\ last.req.op = "allocate"
    /\ SchemaValid(last.req)
    /\ \E k \in DOMAIN last.req.allocations :
          prev.invoices[last.req.allocations[k].invoice_id].organization_id
            # last.req.organization_id

\* C12: a call scoped to one organization fetches, returns, counts, pays and
\* changes invoices of that organization only, and an AllocatePayment naming
\* an invoice of another organization fails as not found, changing nothing.
C12_OtherOrganizationsUntouched ==
    last.req.op # "none"
    => LET own == {i \in InvoiceIds :
                     prev.invoices[i].organization_id = last.req.organization_id}
       IN /\ \A i \in InvoiceIds : invoices[i] # prev.invoices[i] => i \in own
          /\ \A k \in DOMAIN last.fetched : last.fetched[k] \in own
          /\ \A r \in DOMAIN last.rows :
                last.rows[r].invoice_id \in own \cup {NullInvoice}
          /\ \A r \in DOMAIN Created :
                Created[r].organization_id = last.req.organization_id
          /\ \A k \in DOMAIN Returned :
                Returned[k].invoice_id \in own \cup {NullInvoice}
          /\ last.req.op = "aging"
             => /\ last.output.summary["total"].count <= Cardinality(own)
                /\ last.output.total_invoices <= Cardinality(own)
          /\ NamesForeignInvoice
             => (last.result = "not_found" /\ LedgerUnchanged)

\* organization 1 named invoice 3 of organization 2 after a committed call
C12_Witness ==
    /\ NamesForeignInvoice
    /\ calls = 2
    /\ last.result = "not_found"

AgingReported == last.req.op = "aging" /\ last.result = "returned"

Details == last.output.invoice_details

\* C17: every invoice of a report is put in the one bucket the table gives
\* for daysOverdue = asOfDate - due_date: <= 0 current, 1..30 days_1_30,
\* 31..60 days_31_60, 61..90 days_61_90, > 90 days_over_90.
C17_BucketTable ==
    AgingReported
    => \A k \in DOMAIN Details :
          LET n == last.output.report_date
                     - invoices[Details[k].invoice_id].due_date
          IN /\ Details[k].days_overdue = n
             /\ Details[k].aging_bucket \in Buckets
             /\ Details[k].aging_bucket =
                  CASE n <= 0 -> "current"
                    [] n \in 1..30 -> "days_1_30"
                    [] n \in 31..60 -> "days_31_60"
                    [] n \in 61..90 -> "days_61_90"
                    [] n > 90 -> "days_over_90"

\* a report with one invoice exactly 90 and one exactly 60 days overdue
C17_Witness ==
    /\ AgingReported
    /\ \E k \in DOMAIN Details : Details[k].days_overdue = 90
    /\ \E k \in DOMAIN Details : Details[k].days_overdue = 60

BucketCounts ==
    SeqSum([k \in 1..5 |->
        last.output.summary[
            <<"current", "days_1_30", "days_31_60", "days_61_90",
              "days_over_90">>[k]].count])

BucketAmounts ==
    SeqSum([k \in 1..5 |->
        last.output.summary[
            <<"current", "days_1_30", "days_31_60", "days_61_90",
              "days_over_90">>[k]].amount])

\* C18: in every report the total count is the sum of the five bucket counts,
\* total_invoices and the number of details; the total amount is the sum of
\* the five bucket amounts and of the details' outstanding amounts; and
\* total_customers is the number of distinct customers among the details.
C18_ReportTotalsAgree ==
    AgingReported
    => /\ last.output.summary["total"].count = BucketCounts
       /\ last.output.summary["total"].count = last.output.total_invoices
       /\ last.output.summary["total"].count = Len(Details)
       /\ last.output.summary["total"].amount = BucketAmounts
       /\ last.output.summary["total"].amount =
            SeqSum([k \in DOMAIN Details |-> Details[k].outstanding_amount])
       /\ last.output.total_customers =
            Cardinality({Details[k].customer_id : k \in DOMAIN Details})

\* a report over three invoices of two customers in two buckets
C18_Witness ==
    /\ AgingReported
    /\ Len(Details) = 3
    /\ last.output.total_customers = 2
    /\ last.output.summary["total"].amount >= 3
    /\ Cardinality({Details[k].aging_bucket : k \in DOMAIN Details}) = 2

\* the invoices a report is to list
Reportable ==
    {i \in InvoiceIds :
        /\ invoices[i].organization_id = last.req.organization_id
        /\ (last.req.customer_id # NoCustomer
            => invoices[i].customer_id = last.req.customer_id)
        /\ invoices[i].status \in {"sent", "overdue", "paid"}
        /\ (invoices[i].total_amount - invoices[i].paid_amount > 0
            \/ last.req.include_paid)}

\* C19: invoice_details has exactly one entry per invoice of the organization
\* (and customer, when filtered) in status sent, overdue or paid that is
\* outstanding, or settled when includePaid is set; never a draft or a
\* cancelled invoice; and the entries are in non-increasing daysOverdue order.
C19_DetailsSelectedAndOrdered ==
    AgingReported
    => /\ {Details[k].invoice_id : k \in DOMAIN Details} = Reportable
       /\ Len(Details) = Cardinality(Reportable)
       /\ \A k \in DOMAIN Details :
             Details[k].status \notin {"draft", "cancelled"}
       /\ \A a, b \in DOMAIN Details :
             a < b => Details[a].days_overdue >= Details[b].days_overdue

\* a report of two invoices, the longer overdue first and one of them marked
\* paid with a balance left, that leaves out an unpaid draft
C19_Witness ==
    /\ AgingReported
    /\ ~ last.req.include_paid
    /\ Len(Details) = 2
    /\ Details[1].days_overdue > Details[2].days_overdue
    /\ \E k \in DOMAIN Details :
          Details[k].status = "paid" /\ Details[k].outstanding_amount > 0
    /\ \E i \in InvoiceIds :
          invoices[i].status = "draft" /\ invoices[i].paid_amount = 0

\* C20: a GenerateAgingReport call repeated with the same arguments on the
\* unchanged ledger returns the same output, whatever list its query returns.
C20_ReportDeterministic ==
    AgingReported
    => \A fetched \in AgingQuery(invoices, last.req.organization_id,
                                 last.req.customer_id, last.req.include_paid) :
          AgingReport(invoices, fetched, last.req.organization_id,
                      last.req.as_of_date, last.req.customer_id,
                      last.req.include_paid, last.req.today)
            = last.output

\* the data point get_aging_trends computes for a report date from one ledger
PointFrom(ledger, org, report_date, today) ==
    LET fetched == CHOOSE f \in AgingQuery(ledger, org, NoCustomer, FALSE) : TRUE
    IN TrendPoint(report_date,
           AgingReport(ledger, fetched, org, ToOrdinal(report_date),
                       NoCustomer, FALSE, ToOrdinal(today)),
           ledger)

TrendsReturned(c) ==
    /\ sess[c].pc = "done"
    /\ sess[c].req.op = "trends"
    /\ sess[c].result = "returned"

\* C16: the data points of one GetAgingTrends call all come from one ledger
\* state: there is a ledger, among those the call read, from which every
\* point's summary and counts are computed.
C16_TrendsFromOneLedger ==
    \A c \in Clients :
        TrendsReturned(c)
        => \E j \in DOMAIN sess[c].rows :
              \A k \in DOMAIN sess[c].rows :
                 LET point == sess[c].rows[k]
                     one == PointFrom(sess[c].rows[j].ledger,
                                sess[c].req.organization_id,
                                point.report_date, sess[c].req.today)
                 IN /\ point.summary = one.summary
                    /\ point.total_customers = one.total_customers
                    /\ point.total_invoices = one.total_invoices

OverdueReturned == last.req.op = "overdue" /\ last.result = "returned"

\* the invoices GetOverdueInvoices is to return
OverdueExpected ==
    {i \in InvoiceIds :
        /\ invoices[i].organization_id = last.req.organization_id
        /\ (last.req.customer_id # NoCustomer
            => invoices[i].customer_id = last.req.customer_id)
        /\ invoices[i].due_date <= last.req.today - last.req.days_overdue
        /\ invoices[i].total_amount - invoices[i].paid_amount > 0
        /\ invoices[i].status \in {"sent", "overdue"}}

\* C21: GetOverdueInvoices returns exactly the organization's (customer's)
\* invoices due on or before today - minDaysOverdue that are outstanding and
\* sent or overdue, oldest due date first, each with
\* daysOverdue = today - due_date >= minDaysOverdue.
C21_OverdueSelectedAndOrdered ==
    OverdueReturned
    => /\ {last.output[k].invoice_id : k \in DOMAIN last.output} = OverdueExpected
       /\ Len(last.output) = Cardinality(OverdueExpected)
       /\ \A a, b \in DOMAIN last.output :
             a < b => last.output[a].due_date <= last.output[b].due_date
       /\ \A k \in DOMAIN last.output :
             /\ last.output[k].due_date
                  = invoices[last.output[k].invoice_id].due_date
             /\ last.output[k].days_overdue
                  = last.req.today - last.output[k].due_date
             /\ last.output[k].days_overdue >= last.req.days_overdue
             /\ last.output[k].outstanding_amount > 0

\* two invoices returned, the later one due exactly minDaysOverdue days ago,
\* while an outstanding invoice marked paid is left out
C21_Witness ==
    /\ OverdueReturned
    /\ Len(last.output) = 2
    /\ last.output[1].due_date < last.output[2].due_date
    /\ last.output[2].days_overdue = last.req.days_overdue
    /\ \E i \in InvoiceIds :
          /\ invoices[i].status = "paid"
          /\ invoices[i].paid_amount < invoices[i].total_amount

\* the first day of the month j months before the month of `today`
FirstOfMonthBefore(today, j) ==
    LET index == today.year * 12 + (today.month - 1) - j
    IN [year |-> index \div 12, month |-> (index % 12) + 1, day |-> 1]

\* C22: for every monthsBack in 1..24 and every current date GetAgingTrends
\* returns, without error, exactly monthsBack data points: one dated today and
\* one dated the first day of each of the monthsBack-1 preceding months, in
\* strictly decreasing report_date order.
C22_TrendsDatesComplete ==
    last.req.op = "trends"
    => /\ last.result = "returned"
       /\ Len(last.output) = last.req.months_back
       /\ last.output[1].report_date = last.req.today
       /\ \A k \in 2..Len(last.output) :
             last.output[k].report_date
               = FirstOfMonthBefore(last.req.today, k - 1)
       /\ \A k \in 1..(Len(last.output) - 1) :
             ToOrdinal(last.output[k].report_date)
               > ToOrdinal(last.output[k + 1].report_date)

\* the invoices for which the last call inserted a Payment row
Paid == {Created[r].invoice_id : r \in DOMAIN Created}

\* C23: a successful AllocatePayment or AutoAllocatePayment changes nothing
\* but the paid_amount of the invoices it allocates to, which it raises, and
\* the Payment table, to which it only appends: every other invoice field,
\* every other invoice and every earlier Payment row is as before.
C23_AllocationFrame ==
    (AllocateCommitted \/ AutoAllocated)
    => /\ \A i \in InvoiceIds :
             /\ invoices[i] = [prev.invoices[i] EXCEPT
                                  !.paid_amount = invoices[i].paid_amount]
             /\ invoices[i].paid_amount >= prev.invoices[i].paid_amount
             /\ i \notin Paid
                => invoices[i].paid_amount = prev.invoices[i].paid_amount
       /\ Len(payments) >= Len(prev.payments)
       /\ SubSeq(payments, 1, Len(prev.payments)) = prev.payments

\* a second committed call settled a sent invoice in full, beside an invoice
\* that got nothing and a Payment row from before
C23_Witness ==
    /\ AllocateCommitted \/ AutoAllocated
    /\ calls = 2
    /\ prev.payments # <<>>
    /\ \E i \in Paid :
          /\ prev.invoices[i].paid_amount < prev.invoices[i].total_amount
          /\ invoices[i].paid_amount = invoices[i].total_amount
          /\ invoices[i].status = "sent"
    /\ \E i \in InvoiceIds :
          /\ i \notin Paid
          /\ invoices[i].organization_id = last.req.organization_id

\* the payment row the last lifecycle request named, as it was before
Target == prev.payments[last.req.payment_id]

TargetFound ==
    /\ last.req.op \in {"update", "status", "delete"}
    /\ PaymentFound(prev.payments, last.req.organization_id, last.req.payment_id)

\* C24: an update_payment or delete_payment call on a completed payment is
\* rejected and leaves every payment row and every invoice as it was; a
\* completed payment changes only by a status transition that names it.
C24_CompletedPaymentImmutable ==
    /\ (/\ TargetFound
        /\ last.req.op \in {"update", "delete"}
        /\ Target.status = "completed")
       => /\ last.result \in {"not_updatable", "not_deletable"}
          /\ LedgerUnchanged
    /\ \A r \in DOMAIN prev.payments :
          (prev.payments[r].status = "completed" /\ payments[r] # prev.payments[r])
          => /\ last.req.op = "status"
             /\ last.req.payment_id = r
             /\ payments[r] = [prev.payments[r] EXCEPT !.status = "cancelled"]

\* an update naming a new amount for a payment completed by an earlier call
C24_Witness ==
    /\ TargetFound
    /\ last.req.op = "update"
    /\ last.req.amount \notin {NoAmount, Target.amount}
    /\ Target.status = "completed"
    /\ calls = 2
    /\ last.result = "not_updatable"

\* the status changes the claim allows
AllowedTransitions ==
    {<<"pending", "completed">>, <<"pending", "failed">>,
     <<"pending", "cancelled">>, <<"completed", "cancelled">>,
     <<"failed", "pending">>, <<"failed", "completed">>,
     <<"failed", "cancelled">>}

\* C25: a payment's status only ever changes along pending -> completed,
\* failed or cancelled, completed -> cancelled, failed -> pending, completed
\* or cancelled; update_payment_status rejects every other request, the same
\* status included, changing nothing; a cancelled payment stays as it is.
C25_StatusTransitions ==
    /\ \A r \in DOMAIN prev.payments :
          /\ (payments[r].status # prev.payments[r].status
              /\ payments[r].status # "deleted")
             => <<prev.payments[r].status, payments[r].status>>
                  \in AllowedTransitions
          /\ prev.payments[r].status = "cancelled"
             => payments[r] = prev.payments[r]
    /\ (TargetFound /\ last.req.op = "status")
       => IF <<Target.status, last.req.status>> \in AllowedTransitions
          THEN /\ last.result = "ok"
               /\ payments[last.req.payment_id].status = last.req.status
          ELSE /\ last.result = "invalid_transition"
               /\ LedgerUnchanged

\* a payment cancelled by one call and asked back to pending by the next
C25_Witness ==
    /\ TargetFound
    /\ last.req.op = "status"
    /\ Target.status = "cancelled"
    /\ last.req.status = "pending"
    /\ calls = 2
    /\ last.result = "invalid_transition"

C26_DetailsNameCreatedPayments ==
    AllocateCommitted
    => /\ Len(last.output) = Len(last.req.allocations)
       /\ \A k \in DOMAIN last.output :
             /\ last.output[k].invoice_id = last.req.allocations[k].invoice_id
             /\ last.output[k].allocated_amount
                  = last.req.allocations[k].allocated_amount
             /\ last.output[k].payment_id # NoId
             /\ last.output[k].payment_id
                  \in (DOMAIN payments) \ (DOMAIN prev.payments)
             /\ payments[last.output[k].payment_id].invoice_id
                  = last.output[k].invoice_id
             /\ payments[last.output[k].payment_id].amount
                  = last.output[k].allocated_amount
       /\ \A j, k \in DOMAIN last.output :
             j # k => last.output[j].payment_id # last.output[k].payment_id

NamesInvoiceTwice ==
    /\ last.req.op = "allocate"
    /\ \E j, k \in DOMAIN last.req.allocations :
          /\ j # k
          /\ last.req.allocations[j].invoice_id
               = last.req.allocations[k].invoice_id

\* C27: an AllocatePayment request naming one invoice in two allocations is
\* rejected and changes nothing, so no invoice is raised past its balance by
\* splitting an amount over allocations that each fit the balance.
C27_RepeatedInvoiceRejected ==
    NamesInvoiceTwice
    => /\ last.result \in {"validation_error", "not_found"}
       /\ LedgerUnchanged

\* a valid request splitting 3 over one invoice with a balance of 2, each
\* part within the balance
C27_Witness ==
    /\ NamesInvoiceTwice
    /\ SchemaValid(last.req)
    /\ LET id == last.req.allocations[1].invoice_id
       IN /\ prev.invoices[id].organization_id = last.req.organization_id
          /\ \A k \in DOMAIN last.req.allocations :
                last.req.allocations[k].allocated_amount
                  <= Outstanding(prev.invoices[id])
          /\ AllocatedTotal(last.req.allocations) > Outstanding(prev.invoices[id])
    /\ last.result = "not_found"

\* the invoices AutoAllocatePayment and GetAllocationSuggestions consider,
\* called for the organization of the last request without a customer filter
Considered ==
    {i \in InvoiceIds :
        \E f \in GetOutstandingInvoices(invoices, last.req.organization_id,
                                        NoCustomer) :
            \E k \in DOMAIN f : f[k] = i}

\* C30: the invoices an aging report without settled invoices and without a
\* customer filter lists are the invoices auto-allocation considers for the
\* same organization, each with outstanding total_amount - paid_amount.
C30_EnginesAgreeOnOutstanding ==
    (AgingReported /\ ~ last.req.include_paid /\ last.req.customer_id = NoCustomer)
    => /\ {Details[k].invoice_id : k \in DOMAIN Details} = Considered
       /\ \A k \in DOMAIN Details :
             Details[k].outstanding_amount
               = Outstanding(invoices[Details[k].invoice_id])

====
